---- MODULE Spec2Model ----
(***************************************************************************)
(* The two copies of the Express application of this repository:           *)
(*   src/app.js            registers GET /  and GET /devopsthebest         *)
(*   src/unnamed/part_000  registers GET /  and GET /status                *)
(* A request is issued by a client, dispatched by the application in one   *)
(* synchronous turn of the event loop, and its response is received by     *)
(* the client.  The wall clock is read in integer milliseconds (Date).     *)
(* Lines 14-28 of src/app.js are the lint configuration: they register no  *)
(* route and touch neither the application object nor its handlers.        *)
(***************************************************************************)
EXTENDS Integers, Sequences, FiniteSets

(* ------------------------------ bounds --------------------------------- *)
\* number of requests a behaviour issues
NumRequests == 2
\* number of clock ticks (milliseconds) a behaviour lets pass
MaxTicks == 1
\* the clock at module load, one millisecond before a whole second
ClockStart == 999

Requests == 1..NumRequests
MaxClock == ClockStart + MaxTicks

(* ------------------------- paths and literals -------------------------- *)
\* A url is a sequence of characters.
RootPath == <<"/">>
StatusLiteral == <<"/", "s", "t", "a", "t", "u", "s">>
DevopsLiteral == <<"/", "d", "e", "v", "o", "p", "s">>
DevopsTheBestLiteral ==
    <<"/", "d", "e", "v", "o", "p", "s", "t", "h", "e", "b", "e", "s", "t">>

\* the body res.send() is given in the handler of '/'
Greeting == "Hello, GitHub Actions!"

Variants == {"app.js", "part_000"}

\* the literal given to the second app.get() call of each file
StatusPath(v) == IF v = "app.js" THEN DevopsTheBestLiteral ELSE StatusLiteral

\* the url that is the status literal of each file
StatusUrl(v) == IF v = "app.js" THEN "/devopsthebest" ELSE "/status"

\* the urls the clients of the model ask for: the root with and without a
\* query string, the three names of the status path, and the registered name
\* in capitals and with a trailing slash
Urls(v) ==
    {"/", "/?a", "/status", "/devops", "/devopsthebest"}
        \cup (IF v = "app.js" THEN {"/DEVOPSTHEBEST", "/devopsthebest/"}
                              ELSE {"/STATUS", "/status/"})

\* the characters of each url
Chars(u) ==
    CASE u = "/"               -> RootPath
      [] u = "/?a"             -> <<"/", "?", "a">>
      [] u = "/status"         -> StatusLiteral
      [] u = "/STATUS"         -> <<"/", "S", "T", "A", "T", "U", "S">>
      [] u = "/status/"        -> StatusLiteral \o <<"/">>
      [] u = "/devops"         -> DevopsLiteral
      [] u = "/devopsthebest"  -> DevopsTheBestLiteral
      [] u = "/DEVOPSTHEBEST"  ->
           <<"/", "D", "E", "V", "O", "P", "S", "T", "H", "E", "B", "E", "S", "T">>
      [] u = "/devopsthebest/" -> DevopsTheBestLiteral \o <<"/">>

\* the requests the clients of the model make: a GET of every url, one
\* request with another method, and a GET of the registered status path by
\* a client that notes the clock before issuing and after receiving (timed)
Inputs(v) ==
    { [method |-> "GET", url |-> u, timed |-> FALSE] : u \in Urls(v) }
        \cup { [method |-> "POST", url |-> "/", timed |-> FALSE] }
        \cup { [method |-> "GET", url |-> StatusUrl(v), timed |-> TRUE] }

(* ----------------------- the framework's matching ---------------------- *)
\* the lower-case form of the capitals of the urls above
LowerOf ==
    [c \in {"A", "B", "D", "E", "H", "O", "P", "S", "T", "U", "V"} |->
        CASE c = "A" -> "a" [] c = "B" -> "b" [] c = "D" -> "d" [] c = "E" -> "e"
          [] c = "H" -> "h" [] c = "O" -> "o" [] c = "P" -> "p" [] c = "S" -> "s"
          [] c = "T" -> "t" [] c = "U" -> "u" [] c = "V" -> "v"]

ToLower(s) == [i \in 1..Len(s) |-> IF s[i] \in DOMAIN LowerOf THEN LowerOf[s[i]] ELSE s[i]]

\* the part of the url before the query string: what the router matches
PathOf(url) ==
    IF \E i \in 1..Len(url) : url[i] = "?"
    THEN LET q == CHOOSE i \in 1..Len(url) :
                    url[i] = "?" /\ \A j \in 1..(i - 1) : url[j] # "?"
         IN SubSeq(url, 1, q - 1)
    ELSE url

\* the pathname of a request's url
Pathname(u) == PathOf(Chars(u))

\* a route layer made by app.get(literal, fn) with the default settings
\* (case sensitive routing off, strict routing off): the literal, compared
\* without regard to case, optionally followed by one slash
MatchPath(literal, path) ==
    \/ ToLower(path) = ToLower(literal)
    \/ ToLower(path) = ToLower(literal) \o <<"/">>

\* app.get() answers GET (and no other method of the model)
MatchMethod(layer, method) == method = layer.method

(* ------------------------------ the clock ------------------------------ *)
\* Date.prototype.toJSON: the seconds and the milliseconds of the Date
ToISOString(t) == [sec |-> t \div 1000, ms |-> t % 1000]

\* Date.parse of such a string, as the client reads it back
ParseISO(s) == s.sec * 1000 + s.ms

(* --------------------------- the application --------------------------- *)
VARIABLES
    variant,    \* which of the two files was loaded
    app,        \* the application object: its stack of route layers
    clock,      \* the wall clock, in milliseconds
    reqs        \* the requests: what the client and the server did with each

vars == <<variant, app, clock, reqs>>

\* variants of the handler of '/' that the properties below tell apart from
\* it: the greeting misspelt
GreetHandlerTypo(a, req, now) ==
    [app  |-> a,
     out  |-> << [status |-> 200, body |-> "Hello, Github Actions!"] >>,
     next |-> FALSE]

\* ... the url echoed when it is more than the bare path
GreetHandlerEcho(a, req, now) ==
    [app  |-> a,
     out  |-> << [status |-> 200, body |-> IF req.url = "/" THEN Greeting ELSE req.url] >>,
     next |-> FALSE]

\* ... no response sent when the url carries a query string
GreetHandlerSilent(a, req, now) ==
    [app  |-> a,
     out  |-> IF req.url = "/" THEN << [status |-> 200, body |-> Greeting] >> ELSE << >>,
     next |-> FALSE]

\* app.get('/', (req, res) => { res.send('Hello, GitHub Actions!'); });
\* a handler is given the application, the request and the clock, and gives
\* back the application, the responses it sent, and whether it called next()
GreetHandler(a, req, now) ==
    [app  |-> a,
     out  |-> << [status |-> 200, body |-> Greeting] >>,
     next |-> FALSE]

\* variants of the status handler that the properties below tell apart from
\* it: the status literal in lower case
StatusHandlerLower(a, req, now) ==
    [app  |-> a,
     out  |-> << [status |-> 200,
                  body   |-> [status |-> "ok", timestamp |-> ToISOString(now)]] >>,
     next |-> FALSE]

\* ... the Date made once, when the module is loaded
StatusHandlerStale(a, req, now) ==
    [app  |-> a,
     out  |-> << [status |-> 200,
                  body   |-> [status |-> "OK", timestamp |-> ToISOString(ClockStart)]] >>,
     next |-> FALSE]

\* ... the milliseconds of the Date alone
StatusHandlerMillis(a, req, now) ==
    [app  |-> a,
     out  |-> << [status |-> 200,
                  body   |-> [status |-> "OK", timestamp |-> ToISOString(now % 1000)]] >>,
     next |-> FALSE]

\* ... a route for '/devops' registered from inside the handler
StatusHandlerRegisters(a, req, now) ==
    [app  |-> [a EXCEPT !.stack = Append(a.stack,
                  [method |-> "GET", path |-> DevopsLiteral, handler |-> "status"])],
     out  |-> << [status |-> 200,
                  body   |-> [status |-> "OK", timestamp |-> ToISOString(now)]] >>,
     next |-> FALSE]

\* app.get(<status path>, (req, res) => {
\*   res.json({ status: 'OK', timestamp: new Date() }); });
StatusHandler(a, req, now) ==
    [app  |-> a,
     out  |-> << [status |-> 200,
                  body   |-> [status |-> "OK", timestamp |-> ToISOString(now)]] >>,
     next |-> FALSE]

RunHandler(name, a, req, now) ==
    IF name = "greet" THEN GreetHandler(a, req, now) ELSE StatusHandler(a, req, now)

\* variants of the registration that the properties below tell apart from
\* it: '/status' registered by both files
StackOneName(v) ==
    << [method |-> "GET", path |-> RootPath,      handler |-> "greet"],
       [method |-> "GET", path |-> StatusLiteral, handler |-> "status"] >>

\* ... '/devops' registered as well
StackDevops(v) ==
    << [method |-> "GET", path |-> RootPath,      handler |-> "greet"],
       [method |-> "GET", path |-> StatusPath(v), handler |-> "status"],
       [method |-> "GET", path |-> DevopsLiteral, handler |-> "status"] >>

\* ... both '/status' and '/devopsthebest' registered
StackBoth(v) ==
    << [method |-> "GET", path |-> RootPath,             handler |-> "greet"],
       [method |-> "GET", path |-> StatusLiteral,        handler |-> "status"],
       [method |-> "GET", path |-> DevopsTheBestLiteral, handler |-> "status"] >>

\* the two app.get() calls made while the module is loaded
Stack(v) ==
    << [method |-> "GET", path |-> RootPath,      handler |-> "greet"],
       [method |-> "GET", path |-> StatusPath(v), handler |-> "status"] >>

\* const app = express(); ...; module.exports = app
LoadedApp(v) == [stack |-> Stack(v)]

\* the framework's answer when no layer ended the request: nothing more when
\* a response was already sent, its 404 page otherwise
FinalHandler(req, out) ==
    IF out # << >> THEN out
    ELSE << [status |-> 404,
             body   |-> [cannot |-> req.method, path |-> Pathname(req.url)]] >>

\* the router: it walks the stack from layer idx; a matching layer's handler
\* runs, and the walk goes on only if the handler called next()
RECURSIVE Walk(_, _, _, _, _, _)
Walk(a, req, now, idx, out, ran) ==
    IF idx > Len(a.stack)
    THEN [app |-> a, out |-> FinalHandler(req, out), ran |-> ran]
    ELSE LET layer == a.stack[idx] IN
         IF MatchPath(layer.path, Pathname(req.url)) /\ MatchMethod(layer, req.method)
         THEN LET h == RunHandler(layer.handler, a, req, now) IN
              IF h.next
              THEN Walk(h.app, req, now, idx + 1, out \o h.out, Append(ran, layer.handler))
              ELSE [app |-> h.app, out |-> out \o h.out,
                    ran |-> Append(ran, layer.handler)]
         ELSE Walk(a, req, now, idx + 1, out, ran)

\* app.handle(req, res): the whole synchronous dispatch of one request
Dispatch(a, req, now) == Walk(a, req, now, 1, << >>, << >>)

NoRequest ==
    [phase |-> "idle", method |-> "GET", url |-> "/", timed |-> FALSE, issuedAt |-> 0,
     ran |-> << >>, responses |-> << >>, receivedAt |-> 0]

Init ==
    /\ variant \in Variants
    /\ app = LoadedApp(variant)
    /\ clock = ClockStart
    /\ reqs = [r \in Requests |-> NoRequest]

\* a millisecond passes
Tick ==
    /\ clock < MaxClock
    /\ clock' = clock + 1
    /\ UNCHANGED <<variant, app, reqs>>

\* a client issues request r (requests are numbered in the order of issue)
Issue(r, i) ==
    /\ reqs[r].phase = "idle"
    /\ \A q \in Requests : q < r => reqs[q].phase # "idle"
    /\ reqs' = [reqs EXCEPT ![r] = [NoRequest EXCEPT !.phase = "inflight",
                                       !.method = i.method, !.url = i.url,
                                       !.timed = i.timed,
                                       !.issuedAt = IF i.timed THEN clock ELSE 0]]
    /\ UNCHANGED <<variant, app, clock>>

\* the server dispatches request r: one turn of the event loop
Handle(r) ==
    /\ reqs[r].phase = "inflight"
    /\ LET d == Dispatch(app, reqs[r], clock) IN
         /\ app' = d.app
         /\ reqs' = [reqs EXCEPT ![r].phase = IF d.out = << >> THEN "pending" ELSE "responded",
                                 ![r].ran = d.ran,
                                 ![r].responses = d.out]
    /\ UNCHANGED <<variant, clock>>

\* the client receives the response to request r
Receive(r) ==
    /\ reqs[r].phase = "responded"
    /\ reqs' = [reqs EXCEPT ![r].phase = "received", ![r].receivedAt = IF reqs[r].timed THEN clock ELSE 0]
    /\ UNCHANGED <<variant, app, clock>>

Next ==
    \/ Tick
    \/ \E r \in Requests, i \in Inputs(variant) : Issue(r, i)
    \/ \E r \in Requests : Handle(r)
    \/ \E r \in Requests : Receive(r)

Spec == Init /\ [][Next]_vars

\* the requests of the behaviours in which delivery is followed to its end:
\* GETs that reach a handler of the loaded file
FairInputs ==
    { [method |-> "GET", url |-> u, timed |-> FALSE] :
        u \in {"/", "/?a", StatusUrl(variant)} }

\* the handlers read the clock and never wait on it, so in these behaviours
\* the clock stands still
FairNext ==
    \/ \E r \in Requests, i \in FairInputs : Issue(r, i)
    \/ \E r \in Requests : Handle(r)
    \/ \E r \in Requests : Receive(r)

\* the event loop dispatches every accepted request, and the connection
\* delivers every response that was written
FairSpec ==
    /\ Init
    /\ [][FairNext]_vars
    /\ \A r \in Requests : WF_vars(Handle(r)) /\ WF_vars(Receive(r))

(* ------------------------- reading the requests ------------------------ *)
\* request r was dispatched by the server
Handled(r) == reqs[r].phase \in {"pending", "responded", "received"}

IsGet(r) == reqs[r].method = "GET"

PathOfReq(r) == Pathname(reqs[r].url)

\* the first response written for request r
Resp(r) == reqs[r].responses[1]

\* a path without regard to letter case and without one trailing slash
Normal(p) ==
    LET l == ToLower(p) IN
    IF Len(l) > 1 /\ l[Len(l)] = "/" THEN SubSeq(l, 1, Len(l) - 1) ELSE l

\* the status literal each file registers, as written in the file
RegisteredStatus == IF variant = "app.js" THEN DevopsTheBestLiteral ELSE StatusLiteral

(* -------------------------------- C1 ----------------------------------- *)
\* C1: every GET request whose path is "/" is answered, whatever requests
\* came before, with status 200 and the body "Hello, GitHub Actions!".
C1_RootGreets ==
    \A r \in Requests :
        Handled(r) /\ IsGet(r) /\ PathOfReq(r) = <<"/">>
            => reqs[r].responses = << [status |-> 200, body |-> "Hello, GitHub Actions!"] >>

\* the second request, a GET of "/", was answered after another request
C1_Witness ==
    /\ reqs[1].phase = "received" /\ reqs[1].url = "/status"
    /\ reqs[2].phase = "received" /\ IsGet(2) /\ reqs[2].url = "/"
    /\ Resp(2).status = 200

(* -------------------------------- C2 ----------------------------------- *)
\* C2 as stated: every GET request whose path is "/status" is answered with
\* status 200 and a JSON body whose status field is "OK".
C2_Original ==
    \A r \in Requests :
        Handled(r) /\ IsGet(r) /\ PathOfReq(r) = StatusLiteral
            => /\ Len(reqs[r].responses) = 1
               /\ Resp(r).status = 200
               /\ Resp(r).body.status = "OK"

\* the step that dispatches request r, a GET of the registered status path
C2_Step(r) ==
    /\ reqs[r].phase = "inflight" /\ reqs'[r].phase # "inflight"
    /\ IsGet(r) /\ PathOfReq(r) = RegisteredStatus

\* C2 (amended): every GET request whose path is the status path the loaded
\* file registers ("/status" in part_000, "/devopsthebest" in app.js) is
\* answered with status 200 and a JSON body that is a record of status "OK"
\* and of a timestamp that reads back as the clock of the dispatching step.
C2_StatusJson ==
    [][\A r \in Requests :
         C2_Step(r) =>
            /\ Len(reqs'[r].responses) = 1
            /\ reqs'[r].responses[1].status = 200
            /\ DOMAIN reqs'[r].responses[1].body = {"status", "timestamp"}
            /\ reqs'[r].responses[1].body.status = "OK"
            /\ ParseISO(reqs'[r].responses[1].body.timestamp) = clock]_vars

\* app.js answered a GET of "/devopsthebest" after the clock had moved
C2_Witness ==
    \E r \in Requests :
        /\ variant = "app.js" /\ reqs[r].phase = "received" /\ IsGet(r)
        /\ reqs[r].url = "/devopsthebest"
        /\ Resp(r).status = 200
        /\ ParseISO(Resp(r).body.timestamp) > ClockStart

(* -------------------------------- C3 ----------------------------------- *)
\* a GET of the registered status path by a client that notes the clock
TimedStatus(r) ==
    reqs[r].timed /\ IsGet(r) /\ PathOfReq(r) = RegisteredStatus

\* C3: the timestamp of a response to a GET of the status path is no
\* earlier than the clock when the client issued the request and no later
\* than the clock when the client received the response.
C3_TimestampBetween ==
    \A r \in Requests :
        TimedStatus(r) /\ Handled(r)
            => /\ reqs[r].issuedAt <= ParseISO(Resp(r).body.timestamp)
               /\ reqs[r].phase = "received"
                    => ParseISO(Resp(r).body.timestamp) <= reqs[r].receivedAt

\* a status request issued before and received after a tick of the clock
C3_Witness ==
    \E r \in Requests :
        /\ TimedStatus(r) /\ reqs[r].phase = "received"
        /\ reqs[r].issuedAt < reqs[r].receivedAt

(* -------------------------------- C4 ----------------------------------- *)
\* C4: of two GETs of the status path, the second issued once the response
\* to the first was received (so at a clock no earlier than the clock of
\* that receipt), the second's timestamp is no earlier than the first's.
C4_NonDecreasing ==
    \A r1, r2 \in Requests :
        /\ r1 < r2 /\ TimedStatus(r1) /\ TimedStatus(r2)
        /\ reqs[r1].phase = "received" /\ Handled(r2)
        /\ reqs[r1].receivedAt <= reqs[r2].issuedAt
        => ParseISO(Resp(r1).body.timestamp) <= ParseISO(Resp(r2).body.timestamp)

\* two status requests in sequence, on either side of the turn of a second
C4_Witness ==
    /\ TimedStatus(1) /\ TimedStatus(2)
    /\ reqs[1].phase = "received" /\ reqs[2].phase = "received"
    /\ reqs[1].receivedAt <= reqs[2].issuedAt
    /\ Resp(1).body.timestamp.sec < Resp(2).body.timestamp.sec

(* -------------------------------- C5 ----------------------------------- *)
\* C5 as stated: every GET request whose path is neither "/" nor the
\* registered status path is answered 404, and neither handler runs.
C5_Original ==
    \A r \in Requests :
        Handled(r) /\ IsGet(r) /\ PathOfReq(r) \notin {<<"/">>, RegisteredStatus}
            => /\ Len(reqs[r].responses) = 1
               /\ Resp(r).status = 404
               /\ reqs[r].ran = << >>

\* C5 (amended): every GET request whose path, compared without regard to
\* letter case and to one trailing slash, is neither "/" nor the registered
\* status path is answered 404, and neither handler runs.
C5_NotFound ==
    \A r \in Requests :
        Handled(r) /\ IsGet(r) /\ Normal(PathOfReq(r)) \notin {<<"/">>, RegisteredStatus}
            => /\ Len(reqs[r].responses) = 1
               /\ Resp(r).status = 404
               /\ reqs[r].ran = << >>

\* a GET of "/devops", which neither file registers, was answered 404
C5_Witness ==
    \E r \in Requests :
        /\ reqs[r].phase = "received" /\ IsGet(r) /\ reqs[r].url = "/devops"
        /\ Resp(r).status = 404 /\ reqs[r].ran = << >>

(* -------------------------------- C6 ----------------------------------- *)
\* C6: in any sequence of requests, every GET request to "/" gets the same
\* body as every other GET request to "/".
C6_SameBody ==
    \A r1, r2 \in Requests :
        /\ Handled(r1) /\ IsGet(r1) /\ PathOfReq(r1) = <<"/">>
        /\ Handled(r2) /\ IsGet(r2) /\ PathOfReq(r2) = <<"/">>
        => /\ Len(reqs[r1].responses) = 1 /\ Len(reqs[r2].responses) = 1
           /\ Resp(r1).body = Resp(r2).body

\* two GETs of the path "/", with and without a query string, were answered
C6_Witness ==
    /\ reqs[1].phase = "received" /\ IsGet(1) /\ reqs[1].url = "/"
    /\ reqs[2].phase = "received" /\ IsGet(2) /\ reqs[2].url = "/?a"

(* -------------------------------- C7 ----------------------------------- *)
\* the handlers a GET of path p is to run, by the literals of the loaded file
RunsByLiteral(p, eq(_, _)) ==
    IF eq(p, <<"/">>) THEN << "greet" >>
    ELSE IF eq(p, RegisteredStatus) THEN << "status" >>
    ELSE << >>

ExactEq(p, literal) == p = literal

LooseEq(p, literal) == Normal(p) = literal

\* C7 as stated: a GET request is answered by a registered handler if and
\* only if its path equals that handler's literal character for character,
\* and two requests with the same path get the same handler.
C7_Original ==
    /\ \A r \in Requests :
          Handled(r) /\ IsGet(r) => reqs[r].ran = RunsByLiteral(PathOfReq(r), ExactEq)
    /\ \A r1, r2 \in Requests :
          Handled(r1) /\ Handled(r2) /\ IsGet(r1) /\ IsGet(r2)
             /\ PathOfReq(r1) = PathOfReq(r2) => reqs[r1].ran = reqs[r2].ran

\* C7 (amended): a GET request is answered by a registered handler if and
\* only if its path equals that handler's literal once letter case and one
\* trailing slash are disregarded, and two GET requests with the same path
\* get the same handler whatever their query strings.
C7_LooseRouting ==
    /\ \A r \in Requests :
          Handled(r) /\ IsGet(r) => reqs[r].ran = RunsByLiteral(PathOfReq(r), LooseEq)
    /\ \A r1, r2 \in Requests :
          Handled(r1) /\ Handled(r2) /\ IsGet(r1) /\ IsGet(r2)
             /\ PathOfReq(r1) = PathOfReq(r2) => reqs[r1].ran = reqs[r2].ran

\* part_000 answered "/STATUS" and "/status/" by its status handler
C7_Witness ==
    /\ variant = "part_000"
    /\ reqs[1].phase = "received" /\ IsGet(1) /\ reqs[1].url = "/STATUS"
    /\ reqs[2].phase = "received" /\ IsGet(2) /\ reqs[2].url = "/status/"
    /\ reqs[1].ran = << "status" >> /\ reqs[2].ran = << "status" >>

(* -------------------------------- C8 ----------------------------------- *)
\* the answer the freshly loaded application gives to request r alone
Solo(r) == Dispatch(LoadedApp(variant), reqs[r], ClockStart)

\* two responses are the same; of two responses of the status handler the
\* clock value in the timestamp is left out of the comparison
SameButClock(x, y, stamped) ==
    /\ x.status = y.status
    /\ IF stamped
       THEN /\ DOMAIN x.body = DOMAIN y.body
            /\ x.body.status = y.body.status
       ELSE x.body = y.body

\* C8: no handler writes application state, and whatever the interleaving
\* each request's status and body (but for the clock value of a timestamp)
\* are what it would get were it the only request ever served.
C8_Stateless ==
    /\ app = LoadedApp(variant)
    /\ \A r \in Requests :
          Handled(r) =>
             LET solo == Solo(r) IN
             /\ reqs[r].ran = solo.ran
             /\ Len(reqs[r].responses) = Len(solo.out)
             /\ \A i \in 1..Len(reqs[r].responses) :
                   SameButClock(reqs[r].responses[i], solo.out[i],
                                reqs[r].ran = << "status" >>)

\* a status request was answered, and a later GET of "/devops" overtook it
C8_Witness ==
    /\ reqs[1].phase = "responded" /\ reqs[1].ran = << "status" >>
    /\ reqs[2].phase = "received" /\ IsGet(2) /\ reqs[2].url = "/devops"

(* -------------------------------- C9 ----------------------------------- *)
\* request r is a GET that a registered handler answers
ReachesHandler(r) ==
    IsGet(r) /\ Normal(PathOfReq(r)) \in {<<"/">>, RegisteredStatus}

\* C9: every GET request that reaches a registered handler is answered in
\* the step that dispatches it, whatever the other requests are doing, by
\* exactly one response, which the client eventually receives; no request
\* is ever sent a second response.
C9_OneResponse ==
    /\ \A r \in Requests :
          (reqs[r].phase = "inflight" /\ ReachesHandler(r))
             ~> (reqs[r].phase = "received" /\ Len(reqs[r].responses) = 1)
    /\ [](\A r \in Requests :
             /\ Len(reqs[r].responses) <= 1
             /\ Handled(r) /\ ReachesHandler(r)
                   => reqs[r].phase # "pending" /\ Len(reqs[r].responses) = 1)

\* a GET of "/?a" was answered and received while an earlier request was
\* still waiting to be dispatched
C9_Witness ==
    /\ reqs[1].phase = "inflight"
    /\ reqs[2].phase = "received" /\ IsGet(2) /\ reqs[2].url = "/?a"
    /\ Len(reqs[2].responses) = 1

(* -------------------------------- C10 ---------------------------------- *)
\* the three names of the status path
StatusNames == {StatusLiteral, DevopsLiteral, DevopsTheBestLiteral}

\* C10: each file registers exactly one of the three names, "/devopsthebest"
\* in app.js and "/status" in part_000; a GET of that name gets the status
\* JSON and a GET of either other name gets 404; the registered routes are
\* at all times those of the loaded module.
C10_OneStatusPath ==
    /\ Len(app.stack) = 2
    /\ app.stack[1].path = <<"/">>
    /\ app.stack[2].path = (IF variant = "app.js" THEN DevopsTheBestLiteral ELSE StatusLiteral)
    /\ \A r \in Requests :
          Handled(r) /\ IsGet(r) /\ PathOfReq(r) \in StatusNames
             => /\ Len(reqs[r].responses) = 1
                /\ IF PathOfReq(r) = app.stack[2].path
                   THEN reqs[r].ran = << "status" >> /\ Resp(r).status = 200
                   ELSE reqs[r].ran = << >> /\ Resp(r).status = 404

\* app.js answered "/devopsthebest" with the status JSON and "/status" 404
C10_Witness ==
    /\ variant = "app.js"
    /\ reqs[1].phase = "received" /\ reqs[1].url = "/devopsthebest" /\ Resp(1).status = 200
    /\ reqs[2].phase = "received" /\ reqs[2].url = "/status" /\ Resp(2).status = 404

====
